---- MODULE Spec2Model ----
(***************************************************************************)
(* Model of the hierarchical section-generation engine of storm:           *)
(*   generateArticle / generateArticleSection   (src/src/index.tsx)        *)
(*   ensureUnique, ensureBudget                 (src/src/postprocessing/)  *)
(*   shouldDedupe                               (src/src/dedupe.ts)        *)
(*   AsyncQueue                                 (src/src/queue.ts)         *)
(* A run calls one of the exported functions (variable entry).             *)
(* An async function is split at its awaits: one action per capability     *)
(* call that is issued and one per way it can settle.                      *)
(***************************************************************************)
EXTENDS Integers, Sequences, FiniteSets, TLC

(* ------------------------------ bounds --------------------------------- *)
\* outlines have at most MaxNodes outline items (any shape, any depth)
MaxNodes == 4
\* a corpus handed to a direct ensureUnique call has at most MaxCorpus entries
MaxCorpus == 2
\* at most MaxEmbedFailures embedding calls fail in one run
MaxEmbedFailures == 1
\* at most MaxTasks tasks are given to enqueue
MaxTasks == 4

(* --------------------------- optional values --------------------------- *)
\* an optional value (x?: T): <<>> when undefined, <<v>> when set
Undefined == <<>>
Some(v) == <<v>>
IsSet(x) == x # <<>>
ValueOf(x) == x[1]

(* ------------------------------ outlines -------------------------------- *)
\* OutlineItem.tokenBudget of the item numbered i: 100, 200 or undefined
\* (the tests build items without a budget), neighbours differing
TokenBudgetOf(i) ==
  IF i % 3 = 0 THEN Undefined ELSE Some(100 * (i % 3))

RECURSIVE AncestorsOrSelf(_, _)
AncestorsOrSelf(parent, j) ==
  IF j = 0 THEN {0} ELSE {j} \cup AncestorsOrSelf(parent, parent[j])

\* parent vectors of the ordered forests with n nodes, nodes numbered in the
\* order the items are written down
ParentVectors(n) ==
  { p \in [1..n -> 0..(n - 1)] :
      \A i \in 1..n : IF i = 1 THEN p[i] = 0
                               ELSE p[i] \in AncestorsOrSelf(p, i - 1) }

RECURSIVE SortedSeq(_)
SortedSeq(S) ==
  IF S = {} THEN <<>>
  ELSE LET m == CHOOSE x \in S : \A y \in S : x <= y
       IN <<m>> \o SortedSeq(S \ {m})

\* the OutlineItem record (src/unnamed/part_001, OutlineItem): title,
\* tokenBudget, items.  description and guidelines only feed the prompt text.
RECURSIVE OutlineItemOf(_, _, _)
OutlineItemOf(parent, n, i) ==
  LET kids == SortedSeq({j \in 1..n : parent[j] = i})
  IN [title |-> i,
      tokenBudget |-> TokenBudgetOf(i),
      items |-> [k \in 1..Len(kids) |-> OutlineItemOf(parent, n, kids[k])]]

OutlineOf(parent, n) ==
  LET tops == SortedSeq({j \in 1..n : parent[j] = 0})
  IN [title |-> 0,
      items |-> [k \in 1..Len(tops) |-> OutlineItemOf(parent, n, tops[k])]]

Outlines ==
  UNION { { OutlineOf(p, n) : p \in ParentVectors(n) } : n \in 0..MaxNodes }

(* --------------------- content blocks and embeddings -------------------- *)
\* what a generative call can return as content: arrays of content blocks
GenContents == {<<1>>, <<2>>}

\* the content arrays whose text a caller's corpus can hold
CorpusContents == {<<1>>, <<3>>, <<4>>, <<5>>}

\* content.join("\n"): the blocks in order; two arrays join to the same
\* string exactly when they hold the same blocks
Join(content) == content

\* the embedding capability: a block's vector, a text's vector the sum.
\* Cosines: 1~2 0.949, 1~4 0.949, 2~4 0.8, 2~3 0.316, 1~3 0, 3~4 below 0,
\* 1~5 0.6 (3 / (1 * 5), the same in floating point), 2~5 0.822
BlockVector(b) ==
  CASE b = 1 -> <<1, 0>>
    [] b = 2 -> <<3, 1>>
    [] b = 3 -> <<0, 1>>
    [] b = 5 -> <<3, 4>>
    [] OTHER -> <<3, -1>>

RECURSIVE EmbeddingOf(_)
EmbeddingOf(text) ==
  IF text = <<>> THEN <<0, 0>>
  ELSE LET v == BlockVector(Head(text))
           r == EmbeddingOf(Tail(text))
       IN <<v[1] + r[1], v[2] + r[2]>>

Dot(a, b) == a[1] * b[1] + a[2] * b[2]

\* a mutant of CosineAtLeast: equality with the threshold does not count
CosineAbove(a, b, t) == Dot(a, b) >= 0 /\ 10000 * Dot(a, b) * Dot(a, b) > t * t * Dot(a, a) * Dot(b, b)

\* cosineSimilarity(a, b) >= t / 100, exactly, for t >= 0
CosineAtLeast(a, b, t) ==
  /\ Dot(a, b) >= 0
  /\ 10000 * Dot(a, b) * Dot(a, b) >= t * t * Dot(a, a) * Dot(b, b)


(* ------------------------------ constants ------------------------------- *)
\* unique.ts:25  const maxAttempts = 3
maxAttempts == 3
\* unique.ts:57  options.dedupeThreshold ?? 0.5   (in hundredths)
DefaultDedupeThreshold == 50
\* index.tsx:300  options.k ?? DEFAULT_K; config.ts sets DEFAULT_K, "a small
\* positive integer"
DEFAULT_K == 3
\* unique.ts:107  state.sections.slice(-3)
RegenerationK == 3

(* -------------------------------- state --------------------------------- *)
VARIABLES
  entry,            \* the exported function the run calls
  options,          \* StormOptions: embeddingModel, dedupeThreshold
  outline,          \* the Outline given to generateArticle
  status,           \* of generateArticle: "running", "done", "failed"
  state,            \* generateArticle's local `state`
  articleSections,  \* generateArticle's local `articleSections`
  idx,              \* position of generateArticle's for-of loop in outline.items
  stack,            \* the active generateArticleSection calls, innermost last
  eu,               \* the active ensureUnique call
  embeddings,       \* the one array every GenerationState's `embeddings` refers to
  calls,            \* history: the generative calls issued so far
  postprocessed,    \* history: the items whose postprocessing loop has finished,
                    \* each with the content the loop left in its section
  embedFailures,    \* number of embedding calls that failed
  article,          \* what generateArticle returned, if it did
  error,            \* what generateArticle threw, if it did
  eb,               \* the active ensureBudget call
  queue,            \* AsyncQueue.queue: the tasks waiting, oldest first
  isProcessing,     \* AsyncQueue.isProcessing
  tasks,            \* the tasks given to enqueue so far, each with how far it got
  loops             \* the processQueue calls that have not returned, each with
                    \* the task it awaits

queueVars == <<queue, isProcessing, tasks, loops>>

coreVars == <<entry, options, outline, status, state, articleSections, idx,
              stack, eu, eb, embeddings, calls, postprocessed, embedFailures,
              article, error>>

vars == <<entry, options, outline, status, state, articleSections, idx, stack,
          eu, embeddings, calls, postprocessed, embedFailures, article, error,
          eb, queue, isProcessing, tasks, loops>>

(* ------------------------------- records -------------------------------- *)
\* index.tsx:426-432  initialOutlineItem (its tokenBudget, DEFAULT_TOKEN_BUDGET,
\* is never read by the section generator)
InitialOutlineItem(o) ==
  [title |-> o.title, tokenBudget |-> Undefined, items |-> <<>>]

\* index.tsx:434-440  the GenerationState generateArticle starts from;
\* `embeddings: []` is the shared array, held in the variable embeddings
InitialState(o) ==
  [topic |-> "topic",
   currentOutlineItem |-> InitialOutlineItem(o),
   sections |-> <<>>,
   contents |-> <<>>]

\* `articleSection` before generateObject has returned
NoSection ==
  [title |-> 0, content |-> <<>>, tokenBudget |-> Undefined,
   children |-> <<>>, actualTokenCount |-> -1]

\* what generateObject returns for a prompt built from outline item `item`
GeneratedSection(item, c) == [title |-> item.title, content |-> c]

\* DraftSection without the copy of the budget
DraftSectionNoBudget(generatedSection, outlineItem) ==
  [title |-> generatedSection.title,
   content |-> generatedSection.content,
   tokenBudget |-> Undefined,
   children |-> <<>>,
   actualTokenCount |-> -1]

\* index.tsx:324-329
DraftSection(generatedSection, outlineItem) ==
  [title |-> generatedSection.title,
   content |-> generatedSection.content,
   tokenBudget |-> outlineItem.tokenBudget,
   children |-> <<>>,
   actualTokenCount |-> -1]

\* the activation record of a generateArticleSection call
Frame(st, outlineItem) ==
  [outlineItem |-> outlineItem,
   state |-> st,
   generatedSection |-> GeneratedSection(outlineItem, <<>>),
   articleSection |-> NoSection,
   subsectionState |-> st,
   children |-> <<>>,
   i |-> 1,
   pc |-> "generateObject"]

\* the activation record of an ensureUnique call
EnsureUniqueCall(st, content) ==
  [pc |-> "start", state |-> st, content |-> content, attempt |-> 1,
   regenerations |-> 0, embedCalls |-> 0, dedupeChecks |-> 0,
   attempts |-> <<>>, argState |-> st, argContent |-> content,
   argEmbeddings |-> embeddings, failed |-> FALSE]

NoEnsureUniqueCall ==
  [pc |-> "idle", state |-> InitialState([title |-> 0]), content |-> <<>>,
   attempt |-> 1, regenerations |-> 0, embedCalls |-> 0, dedupeChecks |-> 0,
   attempts |-> <<>>, argState |-> InitialState([title |-> 0]),
   argContent |-> <<>>, argEmbeddings |-> <<>>, failed |-> FALSE]

\* the activation record of an ensureBudget call
EnsureBudgetCall(st, content, tokenBudget, skipAdjustment) ==
  [pc |-> "start", state |-> st, content |-> content,
   tokenBudget |-> tokenBudget, skipAdjustment |-> skipAdjustment,
   issued |-> <<>>, failed |-> FALSE, argState |-> st, argContent |-> content,
   currentTokens |-> Undefined]

NoEnsureBudgetCall ==
  [pc |-> "idle", state |-> InitialState([title |-> 0]), content |-> <<>>,
   tokenBudget |-> Undefined, skipAdjustment |-> FALSE,
   issued |-> <<>>, failed |-> FALSE,
   argState |-> InitialState([title |-> 0]), argContent |-> <<>>,
   currentTokens |-> Undefined]

\* a mutant of postprocessing: the two steps in the other order
postprocessingReversed == <<"ensureBudget", "ensureUnique">>

\* index.tsx:288-291  const postprocessing = [ensureUnique, ensureBudget]
postprocessing == <<"ensureUnique", "ensureBudget">>

\* index.tsx:338  for (const step of postprocessing): the step after the one
\* named, or "children", what follows the loop
StepAfter(name) ==
  LET i == CHOOSE j \in 1..Len(postprocessing) : postprocessing[j] = name
  IN IF i < Len(postprocessing) THEN postprocessing[i + 1] ELSE "children"

\* index.tsx:339  step({ options, state, content }) where step is
\* ensureUnique
StartEnsureUnique(name, st, content) ==
  IF name = "ensureUnique" THEN EnsureUniqueCall(st, content)
  ELSE NoEnsureUniqueCall

\* index.tsx:339  step({ options, state, content }) where step is
\* ensureBudget: tokenBudget and skipAdjustment are not passed
StartEnsureBudget(name, st, content) ==
  IF name = "ensureBudget" THEN EnsureBudgetCall(st, content, Undefined, FALSE)
  ELSE NoEnsureBudgetCall

Top == stack[Len(stack)]
SetTop(f) == [stack EXCEPT ![Len(stack)] = f]


(* --------------------------- generateArticle ---------------------------- *)
\* index.tsx:300  const k = options.k ?? DEFAULT_K
K(opts) == IF IsSet(opts.k) THEN ValueOf(opts.k) ELSE DEFAULT_K

\* sections.slice(-k) for k >= 0: -0 is 0, so slice(-0) is the whole array
LastK(sections, k) ==
  IF k = 0 \/ k >= Len(sections) THEN sections
  ELSE SubSeq(sections, Len(sections) - k + 1, Len(sections))

\* index.tsx:313-317  what the prompt of the initial call is formatted from
InitialPrompt(st, outlineItem) ==
  [topic |-> options.topic,
   outlineItem |-> outlineItem,
   lastK |-> LastK(st.sections, K(options))]

\* unique.ts:104-108  what the prompt of a regeneration call is formatted from
RegenerationPrompt(st) ==
  [topic |-> st.topic,
   outlineItem |-> st.currentOutlineItem,
   lastK |-> LastK(st.sections, RegenerationK)]

\* a generative call as the history records it: its kind, the outline item it
\* is for, the state of the function that issued it, what its prompt is
\* formatted from (for the calls of generateObject)
CallRecord(kind, st, item, prompt) ==
  [kind |-> kind, item |-> item.title, topic |-> st.topic,
   sections |-> st.sections, postprocessed |-> postprocessed,
   prompt |-> prompt]

\* index.tsx:293-318  generateArticleSection is entered and issues generateObject
EnterSection(st, item) ==
  /\ stack' = Append(stack, Frame(st, item))
  /\ calls' = Append(calls, CallRecord("initial", st, item,
                                       Some(InitialPrompt(st, item))))

\* index.tsx:443-450  the for-of loop of generateArticle calls
\* generateArticleSection for the next item
GenerateArticleCall ==
  /\ entry = "generateArticle" /\ status = "running"
  /\ stack = <<>> /\ idx <= Len(outline.items)
  /\ EnterSection(state, outline.items[idx])
  /\ UNCHANGED <<queueVars, eb, entry, options, outline, status, state, articleSections, idx,
                 eu, embeddings, postprocessed, embedFailures, article, error>>

\* index.tsx:462-479  the loop is over: generateArticle returns the article
GenerateArticleReturn ==
  /\ entry = "generateArticle" /\ status = "running"
  /\ stack = <<>> /\ idx > Len(outline.items)
  /\ status' = "done"
  /\ article' = Some([title |-> outline.title, sections |-> articleSections])
  /\ UNCHANGED <<queueVars, eb, entry, options, outline, state, articleSections, idx, stack,
                 eu, embeddings, calls, postprocessed, embedFailures, error>>

\* a mutant of Unwind: the caller's loop catches the error and goes on
UnwindCaught(frames) ==
  IF Len(frames) <= 1 THEN <<>>
  ELSE LET rest == SubSeq(frames, 1, Len(frames) - 1)
           p == rest[Len(rest)]
       IN [rest EXCEPT ![Len(rest)] = [p EXCEPT !.i = p.i + 1]]

\* index.tsx:319-322, 377, 446  the .catch rethrows and no caller catches:
\* the error leaves every active generateArticleSection call
Unwind(frames) == <<>>

\* index.tsx:306-322  generateObject fails
GenerateObjectFails ==
  /\ stack # <<>> /\ Top.pc = "generateObject"
  /\ stack' = Unwind(stack)
  /\ error' = Some(Top.outlineItem.title)
  /\ status' = IF stack' = <<>> THEN "failed" ELSE status
  /\ UNCHANGED <<queueVars, eb, entry, options, outline, state, articleSections, idx, eu,
                 embeddings, calls, postprocessed, embedFailures, article>>

\* index.tsx:306-339  generateObject returns; the draft is built, the state
\* gets the current outline item, and the first postprocessing step,
\* ensureUnique, is called
GenerateObjectReturns ==
  /\ stack # <<>> /\ Top.pc = "generateObject"
  /\ \E c \in GenContents :
       LET f == Top
           generatedSection == GeneratedSection(f.outlineItem, c)
           draft == DraftSection(generatedSection, f.outlineItem)
           st == [f.state EXCEPT !.currentOutlineItem = f.outlineItem]
       IN /\ stack' = SetTop([f EXCEPT !.generatedSection = generatedSection,
                                       !.articleSection = draft,
                                       !.state = st,
                                       !.pc = postprocessing[1]])
          /\ eu' = StartEnsureUnique(postprocessing[1], st, draft.content)
          /\ eb' = StartEnsureBudget(postprocessing[1], st, draft.content)
  /\ UNCHANGED <<queueVars, entry, options, outline, status, state, articleSections, idx,
                 embeddings, calls, postprocessed, embedFailures, article, error>>


(* ------------------------------ shouldDedupe ---------------------------- *)
\* dedupe.ts:42-49  the existing paragraphs whose similarity to the candidate
\* is >= threshold, in corpus order
RECURSIVE Similar(_, _, _, _)
Similar(existing, existingEmbeddings, candidateEmbedding, threshold) ==
  IF existing = <<>> THEN <<>>
  ELSE (IF CosineAtLeast(candidateEmbedding, Head(existingEmbeddings), threshold)
          THEN <<Head(existing)>> ELSE <<>>)
       \o Similar(Tail(existing), Tail(existingEmbeddings),
                  candidateEmbedding, threshold)

\* a mutant of shouldDedupe: a check that failed counts as a duplicate found
shouldDedupeFailed(existing, existingEmbeddings, candidate, threshold, embedOk) ==
  IF Len(existingEmbeddings) # Len(existing)
    THEN [threw |-> TRUE, embedCalled |-> FALSE, similar |-> <<>>, should |-> TRUE]
  ELSE IF ~embedOk
    THEN [threw |-> TRUE, embedCalled |-> TRUE, similar |-> <<>>, should |-> TRUE]
  ELSE LET similar == Similar(existing, existingEmbeddings,
                              EmbeddingOf(candidate), threshold)
       IN [threw |-> FALSE, embedCalled |-> TRUE, similar |-> similar,
           should |-> Len(similar) > 0]

\* dedupe.ts:15-55  shouldDedupe called with existingEmbeddings and without
\* candidateEmbedding; embedOk: whether its embed call succeeds.
\* threw: it rejected; embedCalled: it got as far as calling embed
shouldDedupe(existing, existingEmbeddings, candidate, threshold, embedOk) ==
  IF Len(existingEmbeddings) # Len(existing)
    THEN [threw |-> TRUE, embedCalled |-> FALSE, similar |-> <<>>, should |-> FALSE]
  ELSE IF ~embedOk
    THEN [threw |-> TRUE, embedCalled |-> TRUE, similar |-> <<>>, should |-> FALSE]
  ELSE LET similar == Similar(existing, existingEmbeddings,
                              EmbeddingOf(candidate), threshold)
       IN [threw |-> FALSE, embedCalled |-> TRUE, similar |-> similar,
           should |-> Len(similar) > 0]

(* ------------------------------ ensureUnique ---------------------------- *)
\* a mutant of NoEmbeddingModel: the early return is never taken
NoEmbeddingModelNever(opts) == FALSE

\* unique.ts:28  !options.embeddingModel
NoEmbeddingModel(opts) == ~opts.embeddingModel

\* unique.ts:57  threshold: options.dedupeThreshold ?? 0.5
Threshold(opts) ==
  IF IsSet(opts.dedupeThreshold) THEN ValueOf(opts.dedupeThreshold)
  ELSE DefaultDedupeThreshold

\* a mutant of IsLastAttempt: the last attempt is recognised one attempt early
IsLastAttemptEarly(attempt) == attempt >= maxAttempts - 1

\* unique.ts:63  isLastAttempt
IsLastAttempt(attempt) == attempt >= maxAttempts

\* a mutant of NextAttempt: the attempt counter is not advanced
NextAttemptStuck(attempt) == attempt

\* unique.ts:50  attempt++
NextAttempt(attempt) == attempt + 1

\* a mutant of LoopContinues: the loop ends one iteration early
LoopContinuesShort(attempt) == attempt < maxAttempts

\* a mutant of Accepts: only a unique candidate is accepted
AcceptsOnlyUnique(isUnique, isLastAttempt) == isUnique

\* unique.ts:78  if (isUnique || isLastAttempt)
Accepts(isUnique, isLastAttempt) == isUnique \/ isLastAttempt

\* unique.ts:50  attempt <= maxAttempts
LoopContinues(attempt) == attempt <= maxAttempts

\* whether one more embedding call may fail
EmbedOutcomes == IF embedFailures < MaxEmbedFailures THEN {TRUE, FALSE} ELSE {TRUE}

\* unique.ts:27-50  ensureUnique up to its first await: the early return,
\* the embed call of the empty-corpus branch, or the first shouldDedupe call
EnsureUniqueStart ==
  /\ eu.pc = "start"
  /\ eu' = IF NoEmbeddingModel(options)
             THEN [eu EXCEPT !.pc = "return"]
           ELSE IF Len(eu.state.contents) = 0
             THEN [eu EXCEPT !.pc = "embedFirst", !.embedCalls = @ + 1]
           ELSE [eu EXCEPT !.pc = "shouldDedupe", !.attempt = 1]
  /\ UNCHANGED <<queueVars, eb, entry, options, outline, status, state, articleSections, idx,
                 stack, embeddings, calls, postprocessed, embedFailures,
                 article, error>>

\* a mutant of PushEmbedding: the embedding is put in front
PushEmbeddingFront(embs, embedding) == <<embedding>> \o embs

\* unique.ts:40, 84  state.embeddings.push(embedding), on the array every
\* copy of the state refers to
PushEmbedding(embs, embedding) == Append(embs, embedding)

\* unique.ts:35-46 and 79-90  the embed call settles: on success the embedding
\* is pushed onto state.embeddings, on failure the error is logged; either
\* way ensureUnique returns { state, content }
EnsureUniqueEmbed ==
  /\ eu.pc \in {"embedFirst", "embedAccept"}
  /\ \E ok \in EmbedOutcomes :
       /\ embeddings' = IF ok THEN PushEmbedding(embeddings, EmbeddingOf(Join(eu.content)))
                        ELSE embeddings
       /\ embedFailures' = IF ok THEN embedFailures ELSE embedFailures + 1
  /\ eu' = [eu EXCEPT !.pc = "return"]
  /\ UNCHANGED <<queueVars, eb, entry, options, outline, status, state, articleSections, idx,
                 stack, calls, postprocessed, article, error>>

\* unique.ts:52-97  one loop iteration from the shouldDedupe call to the next
\* await: shouldDedupe settles (a rejection counts as should = false), then
\* either the accepting embed call or the regenerating generateObject call
\* is issued
EnsureUniqueCheck ==
  /\ eu.pc = "shouldDedupe"
  /\ \E ok \in EmbedOutcomes :
       LET r == shouldDedupe(eu.state.contents, embeddings, Join(eu.content),
                             Threshold(options), ok)
           shouldDeduplicate == r.should
           isLastAttempt == IsLastAttempt(eu.attempt)
           isUnique == ~shouldDeduplicate
           accept == Accepts(isUnique, isLastAttempt)
           seen == [attempt |-> eu.attempt, content |-> eu.content,
                    threw |-> r.threw, accept |-> accept,
                    regenerationsBefore |-> eu.regenerations,
                    should |-> r.should, similar |-> r.similar]
       IN /\ embedFailures' = IF r.embedCalled /\ ~ok THEN embedFailures + 1
                              ELSE embedFailures
          /\ ok \/ r.embedCalled
          /\ eu' = [eu EXCEPT
                      !.dedupeChecks = @ + 1,
                      !.embedCalls = @ + (IF r.embedCalled THEN 1 ELSE 0)
                                       + (IF accept THEN 1 ELSE 0),
                      !.attempts = Append(@, seen),
                      !.pc = IF accept THEN "embedAccept" ELSE "generateObject",
                      !.regenerations = IF accept THEN @ ELSE @ + 1]
          /\ calls' = IF accept THEN calls
                      ELSE Append(calls, CallRecord("regeneration", eu.state,
                                     eu.state.currentOutlineItem,
                                     Some(RegenerationPrompt(eu.state))))
  /\ UNCHANGED <<queueVars, eb, entry, options, outline, status, state, articleSections, idx,
                 stack, embeddings, postprocessed, article, error>>

\* a mutant of RegenerationFailed: the loop goes on with the same content
RegenerationFailedRetries(call) == [call EXCEPT !.failed = TRUE, !.attempt = @ + 1, !.pc = "shouldDedupe"]

\* a mutant of EmbeddingsOnFailure: the returned content's embedding is pushed
EmbeddingsOnFailurePushed(embs, content) == Append(embs, EmbeddingOf(Join(content)))

\* unique.ts:115-117  the failure path returns { state, content } without an
\* embed call: state.embeddings is what it was
EmbeddingsOnFailure(embs, content) == embs

\* unique.ts:109-117  generateObject rejected: the error is logged,
\* generateResult is null and ensureUnique returns { state, content }
RegenerationFailed(call) == [call EXCEPT !.failed = TRUE, !.pc = "return"]

\* unique.ts:97-121  the regenerating generateObject call settles: on failure
\* ensureUnique returns the current content, on success the content is
\* replaced and the loop goes on
EnsureUniqueRegenerated ==
  /\ eu.pc = "generateObject"
  /\ \/ /\ eu' = RegenerationFailed(eu)
        /\ embeddings' = EmbeddingsOnFailure(embeddings, eu.content)
     \/ \E c \in GenContents :
          LET next == NextAttempt(eu.attempt)
          IN /\ eu' = [eu EXCEPT !.content = c, !.attempt = next,
                                 !.pc = IF LoopContinues(next) THEN "shouldDedupe"
                                        ELSE "return"]
             /\ UNCHANGED embeddings
  /\ UNCHANGED <<queueVars, eb, entry, options, outline, status, state, articleSections, idx,
                 stack, calls, postprocessed, embedFailures,
                 article, error>>


(* --------------------------- estimateTokenCount ------------------------- *)
\* the number of words of content block b: block 0 is the empty string, any
\* other block b one line of b words, single-spaced, without outer whitespace
BlockWords(b) == b

RECURSIVE SumWords(_)
SumWords(text) ==
  IF text = <<>> THEN 0 ELSE BlockWords(Head(text)) + SumWords(Tail(text))

\* unique.ts:360  !text || text.trim() === ''
IsBlank(text) == \A k \in 1..Len(text) : BlockWords(text[k]) = 0

\* unique.ts:363  text.split(/\s+/).length for a text that is not blank: the
\* words, and an empty piece at either end where the text starts or ends
\* with whitespace (an empty first or last line)
Pieces(text) ==
  SumWords(text)
    + (IF BlockWords(text[1]) = 0 THEN 1 ELSE 0)
    + (IF BlockWords(text[Len(text)]) = 0 THEN 1 ELSE 0)

\* unique.ts:359-364  estimateTokenCount; Math.ceil(n * 1.3) is
\* (13 n + 9) div 10 (the doubles agree with it for every n below 100000)
estimateTokenCount(text) ==
  IF IsBlank(text) THEN 0 ELSE (13 * Pieces(text) + 9) \div 10

(* ------------------------------ ensureBudget ---------------------------- *)
\* a mutant of NoTokenBudget: the early return is never taken
NoTokenBudgetNever(tokenBudget) == FALSE

\* unique.ts:221  !tokenBudget
NoTokenBudget(tokenBudget) ==
  ~IsSet(tokenBudget) \/ ValueOf(tokenBudget) = 0

\* a mutant of WithinTolerance: the ends of the band are left out
WithinToleranceStrict(currentTokens, tokenBudget) ==
  /\ IsSet(tokenBudget)
  /\ 10 * currentTokens > 9 * ValueOf(tokenBudget)
  /\ 10 * currentTokens < 11 * ValueOf(tokenBudget)

\* unique.ts:251-252  tolerance = tokenBudget * 0.1 and the band test, in
\* tenths (the doubles agree for every integer budget below 3000); a
\* comparison with an undefined budget is false
WithinTolerance(currentTokens, tokenBudget) ==
  /\ IsSet(tokenBudget)
  /\ 10 * currentTokens >= 9 * ValueOf(tokenBudget)
  /\ 10 * currentTokens <= 11 * ValueOf(tokenBudget)

\* a mutant of Adjustment: the two calls are swapped
AdjustmentSwapped(currentTokens, tokenBudget) ==
  IF IsSet(tokenBudget) /\ 10 * currentTokens < 9 * ValueOf(tokenBudget)
    THEN "truncate" ELSE "expand"

\* unique.ts:264-282  currentTokens < tokenBudget - tolerance ? expandContent
\* : truncateContent
Adjustment(currentTokens, tokenBudget) ==
  IF IsSet(tokenBudget) /\ 10 * currentTokens < 9 * ValueOf(tokenBudget)
    THEN "expand" ELSE "truncate"

\* unique.ts:220-282  ensureBudget up to its first await: the generative call
\* it issues, "none" when it returns { state, content } at once
ensureBudget(content, tokenBudget, skipAdjustment) ==
  LET contentString == Join(content)
      currentTokens == estimateTokenCount(contentString)
  IN IF NoTokenBudget(tokenBudget) THEN "none"
     ELSE IF skipAdjustment THEN "none"
     ELSE IF WithinTolerance(currentTokens, tokenBudget) THEN "none"
     ELSE Adjustment(currentTokens, tokenBudget)

\* what the chat completion of expandContent / truncateContent can answer,
\* trimmed, as its lines; <<>> is an answer without content
AdjustResponses == {<<>>, <<7>>, <<3, 0, 4>>}

\* unique.ts:165, 198 and 285-291  the answer, or the original text when the
\* answer has no content, split at "\n" and the empty lines dropped
AdjustedContent(content, response) ==
  LET adjustedContent == IF response = <<>> THEN Join(content) ELSE response
  IN SelectSeq(adjustedContent, LAMBDA line : BlockWords(line) > 0)

\* a mutant of AdjustmentFailed: the error is not caught
AdjustmentFailedRethrows(content) == [pc |-> "threw", content |-> content]

\* unique.ts:293-300  the .catch of the adjustment: the original content
AdjustmentFailed(content) == [pc |-> "return", content |-> content]

\* unique.ts:220-282  ensureBudget runs to its first await or to its return
EnsureBudgetStart ==
  /\ eb.pc = "start"
  /\ LET adjustment == ensureBudget(eb.content, eb.tokenBudget, eb.skipAdjustment)
         \* unique.ts:228-229  currentTokens, computed past the first return
         currentTokens == IF NoTokenBudget(eb.tokenBudget) THEN Undefined
                          ELSE Some(estimateTokenCount(Join(eb.content)))
     IN IF adjustment = "none"
          THEN /\ eb' = [eb EXCEPT !.pc = "return",
                                   !.currentTokens = currentTokens]
               /\ calls' = calls
          ELSE /\ eb' = [eb EXCEPT !.pc = "adjust",
                                   !.issued = Append(@, adjustment),
                                   !.currentTokens = currentTokens]
               /\ calls' = Append(calls, CallRecord(adjustment, eb.state,
                                     eb.state.currentOutlineItem, Undefined))
  /\ UNCHANGED <<queueVars, entry, options, outline, status, state,
                 articleSections, idx, stack, eu, embeddings, postprocessed,
                 embedFailures, article, error>>

\* unique.ts:284-300  the expand or truncate call settles: its answer becomes
\* the content, or it failed and the original content is returned
EnsureBudgetAdjusted ==
  /\ eb.pc = "adjust"
  /\ \/ \E response \in AdjustResponses :
          eb' = [eb EXCEPT !.pc = "return",
                           !.content = AdjustedContent(eb.content, response)]
     \/ LET r == AdjustmentFailed(eb.content)
        IN eb' = [eb EXCEPT !.pc = r.pc, !.content = r.content, !.failed = TRUE]
  /\ UNCHANGED <<queueVars, entry, options, outline, status, state,
                 articleSections, idx, stack, eu, embeddings, calls,
                 postprocessed, embedFailures, article, error>>

(* ------------------------- generateArticleSection ----------------------- *)
\* a mutant of SubsectionState: the node's own section is left out
SubsectionStateWithoutSelf(st, articleSection) == st

\* index.tsx:353-359  subsectionState
SubsectionState(st, articleSection) ==
  [st EXCEPT !.sections =
     Append(st.sections, [articleSection EXCEPT !.children = <<>>])]

\* index.tsx:338-359  a postprocessing step has returned { state, content }:
\* the loop stores both and calls the next step as
\* step({ options, state, content }), without tokenBudget or skipAdjustment;
\* after the last step the loop is over and, if the item has sub-items,
\* subsectionState is built
StepReturns(name, result) ==
  LET f == Top
      next == StepAfter(name)
      section == [f.articleSection EXCEPT !.content = result.content]
  IN /\ stack' = SetTop([f EXCEPT
                           !.state = result.state,
                           !.articleSection = section,
                           !.subsectionState =
                              IF next = "children" /\ Len(f.outlineItem.items) > 0
                                THEN SubsectionState(result.state, section)
                                ELSE @,
                           !.pc = next])
     /\ postprocessed' = IF next = "children"
                           THEN Append(postprocessed,
                                       [item |-> f.outlineItem.title,
                                        content |-> section.content])
                         ELSE postprocessed
     /\ eu' = IF next = "ensureUnique"
                THEN StartEnsureUnique(next, result.state, result.content)
              ELSE NoEnsureUniqueCall
     /\ eb' = IF next = "ensureBudget"
                THEN StartEnsureBudget(next, result.state, result.content)
              ELSE NoEnsureBudgetCall

\* index.tsx:338-343  ensureUnique has returned to the postprocessing loop
EnsureUniqueReturns ==
  /\ eu.pc = "return"
  /\ stack # <<>> /\ Top.pc = "ensureUnique"
  /\ StepReturns("ensureUnique", [state |-> eu.state, content |-> eu.content])
  /\ UNCHANGED <<queueVars, entry, options, outline, status, state, articleSections, idx,
                 embeddings, calls, embedFailures, article, error>>

\* index.tsx:338-343  ensureBudget has returned to the postprocessing loop
EnsureBudgetReturns ==
  /\ eb.pc = "return"
  /\ stack # <<>> /\ Top.pc = "ensureBudget"
  /\ StepReturns("ensureBudget", [state |-> eb.state, content |-> eb.content])
  /\ UNCHANGED <<queueVars, entry, options, outline, status, state, articleSections, idx,
                 embeddings, calls, embedFailures, article, error>>

\* a mutant of CurrentSubsectionState: the earlier siblings are left out
CurrentSubsectionStateNoSiblings(subsectionState, children) == subsectionState

\* index.tsx:369-375  currentSubsectionState
CurrentSubsectionState(subsectionState, children) ==
  [subsectionState EXCEPT !.sections = subsectionState.sections \o children]

\* a mutant of SubItem: the sub-items are taken last to first
SubItemReversed(outlineItem, i) ==
  outlineItem.items[Len(outlineItem.items) + 1 - i]

\* index.tsx:363  outlineItem.items[i], the loop counting from 1 here
SubItem(outlineItem, i) == outlineItem.items[i]

\* index.tsx:362-383  the loop over the sub-items calls generateArticleSection
\* for the next one
SubsectionCall ==
  /\ stack # <<>> /\ Top.pc = "children"
  /\ Top.i <= Len(Top.outlineItem.items)
  /\ EnterSection(CurrentSubsectionState(Top.subsectionState, Top.children),
                  SubItem(Top.outlineItem, Top.i))
  /\ UNCHANGED <<queueVars, eb, entry, options, outline, status, state, articleSections, idx,
                 eu, embeddings, postprocessed, embedFailures, article, error>>

\* a mutant of PushChild: the new subsection replaces the collected ones
PushChildReplaces(children, subsection) == <<subsection>>

\* index.tsx:392  children.push(subsection)
PushChild(children, subsection) == Append(children, subsection)

\* index.tsx:401-416  what generateArticleSection returns
SectionResult(f) ==
  LET finalArticleSection == [f.articleSection EXCEPT !.children = f.children]
  IN [articleSection |-> finalArticleSection,
      state |-> [f.state EXCEPT !.sections = Append(@, finalArticleSection)]]

\* a mutant of FoldChildState: the child's state is taken whole
FoldChildStateKeepsAll(st, updatedState) == updatedState

\* index.tsx:386-390  state = { ...updatedState, sections: state.sections }
FoldChildState(st, updatedState) ==
  [updatedState EXCEPT !.sections = st.sections]

\* index.tsx:401-416 with 385-392 or 452-455  the loop over the sub-items is
\* over: generateArticleSection returns and its caller, the sub-item loop of
\* the parent or the loop of generateArticle, stores the result
SectionReturns ==
  /\ stack # <<>> /\ Top.pc = "children"
  /\ Top.i > Len(Top.outlineItem.items)
  /\ LET r == SectionResult(Top)
         rest == SubSeq(stack, 1, Len(stack) - 1)
     IN IF rest = <<>>
          THEN /\ stack' = <<>>
               /\ state' = r.state
               /\ articleSections' = Append(articleSections, r.articleSection)
               /\ idx' = idx + 1
          ELSE LET p == rest[Len(rest)]
               IN /\ stack' = [rest EXCEPT ![Len(rest)] =
                       [p EXCEPT !.state = FoldChildState(p.state, r.state),
                                 !.children = PushChild(p.children, r.articleSection),
                                 !.i = p.i + 1]]
                  /\ UNCHANGED <<state, articleSections, idx>>
  /\ UNCHANGED <<queueVars, eb, entry, options, outline, status, eu, embeddings, calls,
                 postprocessed, embedFailures, article, error>>

(* ------------------------------- AsyncQueue ----------------------------- *)
\* a task as enqueue sees it: how far the task has got ("queued", "running",
\* "succeeded", "failed"), what the promise enqueue returned settled with,
\* and what the queue was doing when the task arrived ("idle", "running" a
\* task, or "finishing" one: its task has settled, the loop has not resumed)
NewTask == [state |-> "queued", promise |-> Undefined, arrival |-> "idle"]

Arrival ==
  IF loops = {} THEN "idle"
  ELSE IF \E t \in loops : tasks[t].state \in {"succeeded", "failed"}
    THEN "finishing"
  ELSE "running"

\* a mutant of SettleTask: the promise of the newest enqueue call is settled
SettleTaskNewest(ts, t, outcome) ==
  [ts EXCEPT ![t].state = IF outcome = "resolved" THEN "succeeded" ELSE "failed",
             ![Len(ts)].promise = Some([settled |-> outcome, of |-> t])]

\* queue.ts:14-21  the task called by the wrapper of enqueue call t settles:
\* the wrapper calls the resolve or the reject of that call's promise with
\* the task's result or error
SettleTask(ts, t, outcome) ==
  [ts EXCEPT ![t].state = IF outcome = "resolved" THEN "succeeded" ELSE "failed",
             ![t].promise = Some([settled |-> outcome, of |-> t])]

\* queue.ts:14-15  the wrapper of task t is called and calls the task
StartTask(ts, t) == [ts EXCEPT ![t].state = "running"]

\* a mutant of Dequeue: the newest task is taken
DequeueLast(q) == [task |-> q[Len(q)], rest |-> SubSeq(q, 1, Len(q) - 1)]

\* queue.ts:43  this.queue.shift()
Dequeue(q) == [task |-> Head(q), rest |-> Tail(q)]

\* a mutant of MarkProcessing: the flag is not raised
MarkProcessingForgotten == FALSE

\* queue.ts:39  this.isProcessing = true
MarkProcessing == TRUE

\* a mutant of ClearProcessing: the flag stays raised
ClearProcessingForgotten == TRUE

\* queue.ts:48-50  finally { this.isProcessing = false }
ClearProcessing == FALSE

\* queue.ts:35  processQueue goes past its guard
ProcessQueueStarts(flag, q) == ~(flag \/ Len(q) = 0)

\* a mutant of StartsLoop: a drain loop is started whatever the flag says
StartsLoopAlways(flag, q) == Len(q) > 0

\* queue.ts:25-37  enqueue calls processQueue if the flag is down, and
\* processQueue goes past its guard
StartsLoop(flag, q) == ~flag /\ ProcessQueueStarts(flag, q)

\* a mutant of AfterLoop: without `finally`, a throw leaves the flag as it is
AfterLoopNoFinally(flag, threw) == IF threw THEN flag ELSE ClearProcessing

\* queue.ts:41-50  try { while ... } finally { this.isProcessing = false }:
\* the flag when the loop is left, by a throw or at its end
AfterLoop(flag, threw) == ClearProcessing

\* queue.ts:11-29 with 34-46  enqueue: the wrapper of the new task is pushed
\* and, if no processing is flagged, processQueue is called, which runs up
\* to its first await: it raises the flag, takes the oldest task and calls it
Enqueue ==
  /\ entry = "queue" /\ Len(tasks) < MaxTasks
  /\ LET t == Len(tasks) + 1
         pushed == Append(queue, t)
         known == Append(tasks, [NewTask EXCEPT !.arrival = Arrival])
     IN IF StartsLoop(isProcessing, pushed)
          THEN LET d == Dequeue(pushed)
               IN /\ isProcessing' = MarkProcessing
                  /\ queue' = d.rest
                  /\ tasks' = StartTask(known, d.task)
                  /\ loops' = loops \cup {d.task}
          ELSE /\ queue' = pushed
               /\ tasks' = known
               /\ UNCHANGED <<isProcessing, loops>>
  /\ UNCHANGED coreVars

\* queue.ts:15-17  a running task returns: the wrapper resolves the promise
\* of its enqueue call with the task's result
TaskSucceeds ==
  /\ \E t \in 1..Len(tasks) :
       /\ tasks[t].state = "running"
       /\ tasks' = SettleTask(tasks, t, "resolved")
  /\ UNCHANGED <<queue, isProcessing, loops>>
  /\ UNCHANGED coreVars

\* queue.ts:18-21  a running task throws: the wrapper rejects the promise of
\* its enqueue call with the task's error and throws it again
TaskFails ==
  /\ \E t \in 1..Len(tasks) :
       /\ tasks[t].state = "running"
       /\ tasks' = SettleTask(tasks, t, "rejected")
  /\ UNCHANGED <<queue, isProcessing, loops>>
  /\ UNCHANGED coreVars

\* queue.ts:42-50  a processQueue call resumes after `await task()`: if the
\* wrapper threw, the error leaves the while loop and the finally block
\* lowers the flag; otherwise the loop takes the next task or, the queue
\* being empty, ends and the flag is lowered
LoopResumes ==
  /\ \E t \in loops :
       /\ tasks[t].state \in {"succeeded", "failed"}
       /\ IF tasks[t].state = "failed"
            THEN /\ loops' = loops \ {t}
                 /\ isProcessing' = AfterLoop(isProcessing, TRUE)
                 /\ UNCHANGED <<queue, tasks>>
          ELSE IF Len(queue) > 0
            THEN LET d == Dequeue(queue)
                 IN /\ queue' = d.rest
                    /\ tasks' = StartTask(tasks, d.task)
                    /\ loops' = (loops \ {t}) \cup {d.task}
                    /\ UNCHANGED isProcessing
          ELSE /\ loops' = loops \ {t}
               /\ isProcessing' = AfterLoop(isProcessing, FALSE)
               /\ UNCHANGED <<queue, tasks>>
  /\ UNCHANGED coreVars

(* ------------------------------ the machine ----------------------------- *)
\* StormOptions as the core reads them, for a direct call of ensureUnique
OptionsSet ==
  [embeddingModel : BOOLEAN, dedupeThreshold : {Undefined, Some(60), Some(90)},
   k : {Undefined, Some(1)}, topic : {"topic"}]

\* StormOptions for a run of generateArticle
ArticleOptions ==
  [embeddingModel : BOOLEAN, dedupeThreshold : {Some(90)},
   k : {Undefined, Some(0), Some(1)}, topic : {"topic"}]

\* StormOptions where the function called reads none of them
NoOptions ==
  [embeddingModel |-> FALSE, dedupeThreshold |-> Undefined, k |-> Undefined,
   topic |-> "topic"]

\* an ArticleSection a caller's state.sections holds, titled t
CallerSection(t) ==
  [title |-> t, content |-> <<3>>, tokenBudget |-> Undefined,
   children |-> <<>>, actualTokenCount |-> -1]

\* the state.sections a direct call of ensureUnique is given
CallerSections == {<<>>, <<CallerSection(8), CallerSection(9)>>}

\* the corpora a direct call of ensureUnique is given: contents of up to
\* MaxCorpus entries with index-aligned embeddings
Corpora ==
  UNION { [1..n -> {Join(c) : c \in CorpusContents}] : n \in 0..MaxCorpus }

\* the contents and budgets a direct call of ensureBudget is given: one or
\* two blocks, budgets of 10 and 40 tokens
BudgetBlocks == {0, 3, 4, 6, 8, 9, 26, 27}
BudgetContents ==
  UNION { [1..n -> BudgetBlocks] : n \in 0..2 }
TokenBudgets == {Undefined, Some(10), Some(40)}

InitGenerateArticle ==
  /\ entry = "generateArticle"
  /\ options \in ArticleOptions
  /\ outline \in Outlines
  /\ state = InitialState(outline)
  /\ embeddings = <<>>
  /\ eu = NoEnsureUniqueCall
  /\ eb = NoEnsureBudgetCall

InitEnsureBudget ==
  /\ entry = "ensureBudget"
  /\ options = NoOptions
  /\ outline = [title |-> 0, items |-> <<>>]
  /\ state = InitialState(outline)
  /\ embeddings = <<>>
  /\ eu = NoEnsureUniqueCall
  /\ \E content \in BudgetContents, tokenBudget \in TokenBudgets,
        skipAdjustment \in BOOLEAN :
       eb = EnsureBudgetCall(
              [InitialState(outline) EXCEPT
                 !.currentOutlineItem =
                    [title |-> 1, tokenBudget |-> tokenBudget, items |-> <<>>]],
              content, tokenBudget, skipAdjustment)

InitQueue ==
  /\ entry = "queue"
  /\ options = NoOptions
  /\ outline = [title |-> 0, items |-> <<>>]
  /\ state = InitialState(outline)
  /\ embeddings = <<>>
  /\ eu = NoEnsureUniqueCall
  /\ eb = NoEnsureBudgetCall

InitEnsureUnique ==
  /\ entry = "ensureUnique"
  /\ options \in OptionsSet
  /\ eb = NoEnsureBudgetCall
  /\ outline = [title |-> 0, items |-> <<>>]
  /\ state = InitialState(outline)
  /\ \E contents \in Corpora, content \in GenContents, sections \in CallerSections :
       /\ embeddings = [i \in 1..Len(contents) |-> EmbeddingOf(contents[i])]
       /\ eu = EnsureUniqueCall(
                 [InitialState(outline) EXCEPT
                    !.contents = contents,
                    !.sections = sections,
                    !.currentOutlineItem =
                       [title |-> 1, tokenBudget |-> Undefined, items |-> <<>>]],
                 content)

Init ==
  /\ status = "running"
  /\ articleSections = <<>>
  /\ idx = 1
  /\ stack = <<>>
  /\ calls = <<>>
  /\ postprocessed = <<>>
  /\ embedFailures = 0
  /\ article = Undefined
  /\ error = Undefined
  /\ queue = <<>>
  /\ isProcessing = FALSE
  /\ tasks = <<>>
  /\ loops = {}
  /\ (InitGenerateArticle \/ InitEnsureUnique \/ InitEnsureBudget \/ InitQueue)

Next ==
  \/ GenerateArticleCall
  \/ GenerateArticleReturn
  \/ GenerateObjectFails
  \/ GenerateObjectReturns
  \/ EnsureUniqueStart
  \/ EnsureUniqueEmbed
  \/ EnsureUniqueCheck
  \/ EnsureUniqueRegenerated
  \/ EnsureUniqueReturns
  \/ EnsureBudgetStart
  \/ EnsureBudgetAdjusted
  \/ EnsureBudgetReturns
  \/ SubsectionCall
  \/ SectionReturns
  \/ Enqueue
  \/ TaskSucceeds
  \/ TaskFails
  \/ LoopResumes

Spec == Init /\ [][Next]_vars

\* the queue alone, with what the event loop guarantees: a processQueue call
\* whose awaited wrapper has settled is resumed; and, for tasks that
\* terminate, a running task settles
QueueInit == Init /\ entry = "queue"

QueueNext ==
  \/ Enqueue
  \/ TaskSucceeds
  \/ TaskFails
  \/ LoopResumes

QueueSpec ==
  /\ QueueInit /\ [][QueueNext]_vars
  /\ WF_vars(TaskSucceeds \/ TaskFails)
  /\ WF_vars(LoopResumes)

\* one direct call of ensureUnique in which every capability call it awaits
\* (embed, shouldDedupe, generateObject) settles, one way or the other, and
\* the function is resumed
EnsureUniqueInit == Init /\ entry = "ensureUnique"

EnsureUniqueNext ==
  \/ EnsureUniqueStart
  \/ EnsureUniqueEmbed
  \/ EnsureUniqueCheck
  \/ EnsureUniqueRegenerated

EnsureUniqueSpec ==
  /\ EnsureUniqueInit /\ [][EnsureUniqueNext]_vars
  /\ WF_vars(EnsureUniqueStart)
  /\ WF_vars(EnsureUniqueEmbed)
  /\ WF_vars(EnsureUniqueCheck)
  /\ WF_vars(EnsureUniqueRegenerated)


(* ===================== properties of generateArticle ==================== *)
\* the titles of an outline forest in pre-order
RECURSIVE OutlinePreOrder(_)
OutlinePreOrder(items) ==
  IF items = <<>> THEN <<>>
  ELSE <<Head(items).title>> \o OutlinePreOrder(Head(items).items)
       \o OutlinePreOrder(Tail(items))

\* the titles found in a forest of article sections, nested ones included
RECURSIVE SectionTitles(_)
SectionTitles(sections) ==
  IF sections = <<>> THEN {}
  ELSE {Head(sections).title} \cup SectionTitles(Head(sections).children)
       \cup SectionTitles(Tail(sections))

RECURSIVE SameShape(_, _)
SameShape(sections, items) ==
  /\ Len(sections) = Len(items)
  /\ \A i \in 1..Len(items) : SameShape(sections[i].children, items[i].items)

RECURSIVE Corresponds(_, _)
Corresponds(sections, items) ==
  /\ Len(sections) = Len(items)
  /\ \A i \in 1..Len(items) :
       /\ sections[i].title = items[i].title
       /\ sections[i].tokenBudget = items[i].tokenBudget
       /\ Corresponds(sections[i].children, items[i].items)

Returned == entry = "generateArticle" /\ status = "done"

InitialCalls == SelectSeq(calls, LAMBDA c : c.kind = "initial")
RegenerationsOf(title) ==
  Len(SelectSeq(calls, LAMBDA c : c.kind = "regeneration" /\ c.item = title))

\* C1: the article generateArticle returns has the shape of the outline: as
\* many sections as outline.items has entries and, at every node to every
\* depth, as many children as the outline node has items.
C1_SameShape ==
  Returned => SameShape(ValueOf(article).sections, outline.items)

\* a returned article three levels deep with a node of two children
C1_Witness ==
  /\ Returned
  /\ \E i \in 1..Len(outline.items) :
       /\ Len(outline.items[i].items) = 2
       /\ outline.items[i].items[1].items # <<>>

\* C2: in the returned article the section at each position was generated
\* from the outline item at that position and carries that item's
\* tokenBudget, at every depth.
C2_PositionalBudget ==
  Returned => Corresponds(ValueOf(article).sections, outline.items)

\* a returned article with a budgeted subsection under a budgeted section,
\* next to a section without a budget
C2_Witness ==
  /\ Returned
  /\ \E i, j \in 1..Len(ValueOf(article).sections) :
       LET a == ValueOf(article).sections
       IN /\ IsSet(a[i].tokenBudget)
          /\ a[i].children # <<>>
          /\ IsSet(a[i].children[1].tokenBudget)
          /\ a[i].children[1].tokenBudget # a[i].tokenBudget
          /\ ~IsSet(a[j].tokenBudget)

\* C3: the initial generative calls are issued one at a time in pre-order:
\* the k-th call is for the k-th node in pre-order and is issued when
\* generation and postprocessing of exactly the k-1 earlier nodes are
\* complete, and at most one node is being generated or postprocessed.
C3_PreOrderSequential ==
  entry = "generateArticle" =>
    LET pre == OutlinePreOrder(outline.items)
    IN /\ Len(InitialCalls) <= Len(pre)
       /\ \A k \in 1..Len(InitialCalls) :
            /\ InitialCalls[k].item = pre[k]
            /\ [j \in 1..Len(InitialCalls[k].postprocessed) |->
                  InitialCalls[k].postprocessed[j].item] = SubSeq(pre, 1, k - 1)
       /\ Cardinality({j \in 1..Len(stack) :
            stack[j].pc \in {"generateObject", "ensureUnique", "ensureBudget"}}) <= 1

\* the call for a second child is issued after a first child with children
C3_Witness ==
  /\ entry = "generateArticle"
  /\ Len(stack) = 2 /\ stack[2].pc = "generateObject"
  /\ Len(stack[1].children) = 1
  /\ stack[1].children[1].children # <<>>

\* C4: the state.sections an initial generative call is given holds, as an
\* entry or nested in one, every node earlier in pre-order and no other node.
C4_ContextScope ==
  entry = "generateArticle" =>
    LET pre == OutlinePreOrder(outline.items)
    IN \A k \in 1..Len(InitialCalls) :
         SectionTitles(InitialCalls[k].sections) = {pre[j] : j \in 1..(k - 1)}

\* a call was given sections with an ancestor entry and an earlier sibling
\* that has a child of its own
C4_Witness ==
  /\ entry = "generateArticle"
  /\ \E k \in 1..Len(InitialCalls) :
       LET given == InitialCalls[k].sections
       IN /\ Len(given) = 2
          /\ given[1].children = <<>>
          /\ given[2].children # <<>>

\* C5: when the deduplication step runs for a node, state.contents holds the
\* stringified accepted content of every earlier node, in generation order.
C5_ContentsHoldEarlierNodes ==
  (entry = "generateArticle" /\ options.embeddingModel /\ eu.pc = "start") =>
    eu.state.contents =
      [j \in 1..Len(postprocessed) |-> Join(postprocessed[j].content)]

\* C6: when the initial generative call of a node fails, generateArticle
\* fails with that error; the call is not retried, no later generative call
\* is issued and no article is returned.
C6_FailFast ==
  /\ [](IsSet(error) =>
          /\ status = "failed"
          /\ stack = <<>>
          /\ ~IsSet(article)
          /\ calls[Len(calls)].kind = "initial"
          /\ calls[Len(calls)].item = ValueOf(error)
          /\ Len(SelectSeq(calls, LAMBDA c : c.item = ValueOf(error))) = 1)
  /\ [][IsSet(error) => (calls' = calls /\ article' = article /\ status' = status)]_vars

\* a nested call failed after a first top-level section was complete
C6_Witness ==
  /\ status = "failed"
  /\ articleSections # <<>>
  /\ Len(calls[Len(calls)].sections) >= 2


(* ====================== properties of ensureUnique ====================== *)
\* some existing entry of the corpus has similarity >= threshold with content
TooSimilar(content, contents) ==
  \E i \in 1..Len(contents) :
    CosineAtLeast(EmbeddingOf(Join(content)), EmbeddingOf(contents[i]),
                  Threshold(options))

\* the loop iterations of the active ensureUnique call whose similarity
\* check was carried out
Checked == {k \in 1..Len(eu.attempts) : ~eu.attempts[k].threw}

\* C7: with an embedding capability and a non-empty corpus, a candidate
\* below the threshold against every entry is accepted on attempt 1 without
\* a regeneration call; a candidate with some similarity >= threshold
\* triggers a regeneration while attempt < maxAttempts and is accepted only
\* on attempt maxAttempts.
C7_ThresholdDecides ==
  \A k \in Checked :
    LET a == eu.attempts[k]
        similar == TooSimilar(a.content, eu.argState.contents)
    IN /\ (~similar /\ a.attempt = 1) => (a.accept /\ a.regenerationsBefore = 0)
       /\ (similar /\ a.attempt < maxAttempts) =>
            /\ ~a.accept
            /\ RegenerationsOf(eu.state.currentOutlineItem.title)
                 > a.regenerationsBefore
       /\ (similar /\ a.accept) => a.attempt = maxAttempts

\* a call in which every candidate was too similar, accepted on the last
\* attempt
C7_Witness ==
  /\ eu.pc = "return"
  /\ Checked = 1..maxAttempts
  /\ \A k \in Checked : TooSimilar(eu.attempts[k].content, eu.argState.contents)
  /\ eu.attempts[maxAttempts].accept

\* C8: one ensureUnique call issues no more than maxAttempts generative
\* calls, whatever the similarity outcomes and capability failures.
C8_BoundedRegenerations ==
  /\ eu.regenerations <= maxAttempts
  /\ entry = "ensureUnique" => Len(calls) = eu.regenerations
  /\ \A t \in {c.item : c \in {calls[k] : k \in 1..Len(calls)}} :
       RegenerationsOf(t) <= maxAttempts

\* a call that regenerated on every attempt but the last and has returned
C8_Witness ==
  /\ eu.pc = "return"
  /\ eu.regenerations = maxAttempts - 1
  /\ Len(eu.attempts) = maxAttempts

\* similarity 0.95 to two places: 0.945 <= cosine < 0.955
CosineIs95(a, b) ==
  /\ Dot(a, b) >= 0
  /\ 4 * 10000 * Dot(a, b) * Dot(a, b) >= 189 * 189 * Dot(a, a) * Dot(b, b)
  /\ 4 * 10000 * Dot(a, b) * Dot(a, b) < 191 * 191 * Dot(a, a) * Dot(b, b)

\* C9: with an embedding capability and dedupeThreshold 0.9, when the second
\* of two sibling sections first produces content of similarity 0.95 to the
\* first sibling's content, the second section has, once accepted, triggered
\* exactly one regeneration call if the regenerated content is below 0.9,
\* and maxAttempts calls otherwise.
C9_SecondSiblingRegenerates ==
  ( /\ entry = "generateArticle"
    /\ options.embeddingModel
    /\ options.dedupeThreshold = Some(90)
    /\ Len(outline.items) = 2
    /\ Len(stack) = 1 /\ Top.pc = "children"
    /\ Len(postprocessed) = 2
    /\ embedFailures = 0
    /\ CosineIs95(EmbeddingOf(Join(Top.generatedSection.content)),
                  EmbeddingOf(Join(postprocessed[1].content))) )
  =>
    LET regenerations == RegenerationsOf(Top.outlineItem.title)
        final == EmbeddingOf(Join(Top.articleSection.content))
        first == EmbeddingOf(Join(postprocessed[1].content))
    IN \/ regenerations = 1 /\ ~CosineAtLeast(final, first, 90)
       \/ regenerations = maxAttempts
       \/ regenerations + 1 = maxAttempts

\* C10: without an embedding capability ensureUnique returns the state and
\* the content it was given and performs no embedding call, no similarity
\* check and no regeneration call.
C10_NoEmbeddingModelPassThrough ==
  (~options.embeddingModel /\ eu.pc # "idle") =>
    /\ eu.embedCalls = 0 /\ eu.dedupeChecks = 0 /\ eu.regenerations = 0
    /\ embeddings = eu.argEmbeddings
    /\ RegenerationsOf(eu.state.currentOutlineItem.title) = 0
    /\ eu.pc \in {"start", "return"}
    /\ eu.pc = "return" =>
         (eu.state = eu.argState /\ eu.content = eu.argContent)

\* a call without embedding capability returned, given a corpus of two
\* entries one of which equals the candidate
C10_Witness ==
  /\ ~options.embeddingModel
  /\ eu.pc = "return"
  /\ Len(eu.state.contents) = 2
  /\ \E i \in 1..2 : eu.state.contents[i] = Join(eu.content)

\* C11: when an embedding call or the similarity check fails inside
\* ensureUnique, ensureUnique does not throw and the run goes on: no
\* regeneration call is issued for that content and the content current at
\* the failure is what ensureUnique returns.
C11_FailurePassThrough ==
  /\ [](\A k \in 1..Len(eu.attempts) :
          eu.attempts[k].threw =>
            /\ eu.attempts[k].accept
            /\ k = Len(eu.attempts)
            /\ eu.pc \in {"embedAccept", "return"}
            /\ eu.content = eu.attempts[k].content
            /\ eu.regenerations = eu.attempts[k].regenerationsBefore)
  /\ [][embedFailures' > embedFailures =>
          /\ calls' = calls
          /\ eu'.pc \in {"embedAccept", "return"}
          /\ eu'.content = eu.content
          /\ eu'.state = eu.state
          /\ eu'.regenerations = eu.regenerations
          /\ status' = status /\ error' = error]_vars

\* a call whose similarity check failed on the second attempt, after one
\* regeneration, has returned
C11_Witness ==
  /\ eu.pc = "return"
  /\ Len(eu.attempts) = 2
  /\ eu.attempts[2].threw
  /\ eu.regenerations = 1
  /\ eu.content = eu.attempts[2].content


(* ====================== properties of ensureBudget ====================== *)
RECURSIVE TokenCountsSet(_)
TokenCountsSet(sections) ==
  \A i \in 1..Len(sections) :
    /\ sections[i].actualTokenCount >= 0
    /\ TokenCountsSet(sections[i].children)

\* C12: every section of an article that generateArticle returns has
\* actualTokenCount >= 0; the -1 of the draft is replaced once postprocessing
\* has run, also without an adjustment and without a token budget.
C12_TokenCountSet ==
  Returned => TokenCountsSet(ValueOf(article).sections)

\* the calls of one kind issued for the outline item of one title
BudgetCallsOf(kind, title) ==
  Len(SelectSeq(calls, LAMBDA c : c.kind = kind /\ c.item = title))

\* C13: when generateArticleSection has postprocessed an outline item with a
\* tokenBudget, the budget step has issued an expand call for that node if
\* the token estimate of the generated content is below the tolerance band,
\* and a truncate call if it is above.
C13_PipelineAdjusts ==
  \A j \in 1..Len(stack) :
    LET f == stack[j]
        t == estimateTokenCount(Join(f.generatedSection.content))
    IN (entry = "generateArticle" /\ f.pc = "children"
          /\ IsSet(f.outlineItem.tokenBudget)) =>
         LET b == ValueOf(f.outlineItem.tokenBudget)
         IN /\ 10 * t < 9 * b => BudgetCallsOf("expand", f.outlineItem.title) > 0
            /\ 10 * t > 11 * b => BudgetCallsOf("truncate", f.outlineItem.title) > 0

\* the token estimate of the content the active ensureBudget call was given
GivenTokens == estimateTokenCount(Join(eb.argContent))

\* the active ensureBudget call was given a budget and GivenTokens lies in
\* [0.9 b, 1.1 b], both ends included
GivenWithinBand ==
  /\ IsSet(eb.tokenBudget)
  /\ 9 * ValueOf(eb.tokenBudget) <= 10 * GivenTokens
  /\ 10 * GivenTokens <= 11 * ValueOf(eb.tokenBudget)

\* the call left everything as it was given and issued no generative call
BudgetNoOp ==
  /\ eb.issued = <<>>
  /\ eb.pc \in {"start", "return"}
  /\ eb.content = eb.argContent
  /\ eb.state = eb.argState
  /\ BudgetCallsOf("expand", eb.state.currentOutlineItem.title) = 0
  /\ BudgetCallsOf("truncate", eb.state.currentOutlineItem.title) = 0

\* C14: ensureBudget called with a tokenBudget b and content whose token
\* estimate t satisfies 0.9 b <= t <= 1.1 b issues no generative call and
\* returns the content unchanged.
C14_WithinBandNoOp ==
  (eb.pc # "idle" /\ GivenWithinBand) => BudgetNoOp

\* a call without skipAdjustment has returned whose estimate is exactly
\* 1.1 b
C14_Witness ==
  /\ eb.pc = "return"
  /\ ~eb.skipAdjustment
  /\ IsSet(eb.tokenBudget)
  /\ 10 * GivenTokens = 11 * ValueOf(eb.tokenBudget)

\* the one call issued is expand exactly when t < 0.9 b and truncate exactly
\* when t > 1.1 b
OneAdjustment ==
  /\ Len(eb.issued) = 1
  /\ eb.issued[1] = "expand" <=> 10 * GivenTokens < 9 * ValueOf(eb.tokenBudget)
  /\ eb.issued[1] = "truncate" <=> 10 * GivenTokens > 11 * ValueOf(eb.tokenBudget)
  /\ BudgetCallsOf("expand", eb.state.currentOutlineItem.title)
       + BudgetCallsOf("truncate", eb.state.currentOutlineItem.title) = 1

C16_AdjustmentFailureFallsBack ==
  eb.failed =>
    /\ eb.pc = "return"
    /\ eb.content = eb.argContent
    /\ eb.state = eb.argState

\* a call whose expand call failed has returned, given content with an
\* empty block
C16_Witness ==
  /\ eb.failed
  /\ eb.pc = "return"
  /\ eb.issued = <<"expand">>
  /\ \E k \in 1..Len(eb.argContent) : eb.argContent[k] = 0

\* C17: ensureBudget called without a tokenBudget issues no generative call
\* and returns the content and the state unchanged.
C17_NoBudgetNoOp ==
  (eb.pc # "idle" /\ ~IsSet(eb.tokenBudget)) => BudgetNoOp

\* a direct call without a budget has returned, given content that is not
\* blank
C17_Witness ==
  /\ entry = "ensureBudget"
  /\ eb.pc = "return"
  /\ ~IsSet(eb.tokenBudget)
  /\ GivenTokens > 0


(* ======================= properties of AsyncQueue ======================= *)
\* the tasks that have been started and have not settled
Executing == {t \in 1..Len(tasks) : tasks[t].state = "running"}

Finished(t) == tasks[t].state \in {"succeeded", "failed"}

\* C18: whatever the interleaving of enqueue calls and the durations and
\* failures of the tasks, at most one enqueued task is executing.
C18_OneTaskAtATime == Cardinality(Executing) <= 1

\* a task executes after an earlier task failed, with a task waiting
C18_Witness ==
  /\ Cardinality(Executing) = 1
  /\ \E t \in 1..Len(tasks) : tasks[t].state = "failed"
  /\ queue # <<>>

\* C19: tasks start in the order in which they were enqueued: a task has
\* started only if every task enqueued before it has started and finished,
\* whether it succeeded or failed.
C19_StartInEnqueueOrder ==
  \A i, j \in 1..Len(tasks) :
    (i < j /\ tasks[j].state # "queued") => Finished(i)

\* the third task executes after the first failed and the second succeeded
C19_Witness ==
  /\ Len(tasks) >= 3
  /\ tasks[1].state = "failed"
  /\ tasks[2].state = "succeeded"
  /\ tasks[3].state = "running"

\* C20: when a task has failed while tasks are queued behind it, the drain
\* loop goes on: a queued task always has an active drain loop that will
\* start it without a further enqueue call.
C20_DrainContinuesAfterFailure ==
  ((\E t \in 1..Len(tasks) : tasks[t].state = "failed") /\ queue # <<>>)
    => loops # {}

\* C21: the promise enqueue returned for a task is settled only once that
\* task has run, resolved with that task's result if the task succeeded and
\* rejected with that task's error if it failed, never with the outcome of
\* another task.
C21_PromiseTiedToTask ==
  \A t \in 1..Len(tasks) :
    IF IsSet(tasks[t].promise)
      THEN /\ ValueOf(tasks[t].promise).of = t
           /\ ValueOf(tasks[t].promise).settled = "resolved"
                <=> tasks[t].state = "succeeded"
           /\ ValueOf(tasks[t].promise).settled = "rejected"
                <=> tasks[t].state = "failed"
      ELSE ~Finished(t)

\* one promise resolved, one rejected, one pending while its task runs
C21_Witness ==
  /\ \E t \in 1..Len(tasks) :
       tasks[t].promise = Some([settled |-> "resolved", of |-> t])
  /\ \E t \in 1..Len(tasks) :
       tasks[t].promise = Some([settled |-> "rejected", of |-> t])
  /\ \E t \in 1..Len(tasks) :
       tasks[t].state = "running" /\ ~IsSet(tasks[t].promise)

NoTaskFails == \A t \in 1..Len(tasks) : tasks[t].state # "failed"

QueueIdle == queue = <<>> /\ ~isProcessing /\ loops = {}

\* C22: in a run in which no task fails and every task terminates, every
\* enqueued task is executed and its promise resolves, and the queue gets
\* back to idle (empty list, flag lowered), also when an enqueue call
\* arrives while the drain loop is finishing its last task.
C22_AllTasksRun ==
  ([]NoTaskFails) =>
    /\ \A t \in 1..MaxTasks :
         (Len(tasks) >= t) ~>
           (Len(tasks) >= t
              /\ tasks[t].promise = Some([settled |-> "resolved", of |-> t]))
    /\ (Len(tasks) > 0) ~>
         (QueueIdle /\ \A t \in 1..Len(tasks) : tasks[t].state = "succeeded")

\* the queue is idle again after every task succeeded, one of which arrived
\* while the loop was finishing what was then its last task
C22_Witness ==
  /\ QueueIdle
  /\ Len(tasks) >= 2
  /\ \A t \in 1..Len(tasks) :
       tasks[t].promise = Some([settled |-> "resolved", of |-> t])
  /\ \E t \in 1..Len(tasks) : tasks[t].arrival = "finishing"


(* =================== properties of estimateTokenCount =================== *)
\* ceil(1.3 w) for the w whitespace-separated words of a text, 0 for a text
\* without words
WordEstimate(text) ==
  IF SumWords(text) = 0 THEN 0 ELSE (13 * SumWords(text) + 9) \div 10

\* C23: estimateTokenCount returns 0 for the empty string and for text of
\* whitespace only, and ceil(1.3 w) for any other text, w being the number
\* of whitespace-separated words of the text.
C23_EstimateFromWords ==
  IsSet(eb.currentTokens) =>
    ValueOf(eb.currentTokens) = WordEstimate(Join(eb.argContent))


(* ================== properties of the generation state ================== *)
\* C24: a postprocessing step never changes the GenerationState value its
\* caller holds: while a call of ensureUnique is active, and when it has
\* returned and its result is not yet stored, the embeddings of the state
\* the caller passed are what they were at the call.
C24_CallerStateUntouched ==
  eu.pc # "idle" => embeddings = eu.argEmbeddings

\* the initial generative call issued for the outline item of one title
InitialCallOf(title) ==
  CHOOSE c \in {calls[n] : n \in 1..Len(calls)} :
    c.kind = "initial" /\ c.item = title

\* C25: the state passed to the recursive call for child i of a node has as
\* sections the node's own incoming sections, then the node's postprocessed
\* section with empty children, then the assembled children before i in
\* order, and nothing else.
C25_ChildStateSections ==
  entry = "generateArticle" =>
    \A j \in 1..(Len(stack) - 1) :
      LET node == stack[j]
          child == stack[j + 1]
      IN /\ child.outlineItem = node.outlineItem.items[node.i]
         /\ Len(node.children) = node.i - 1
         /\ InitialCallOf(child.outlineItem.title).sections
              = InitialCallOf(node.outlineItem.title).sections
                  \o <<[node.articleSection EXCEPT !.children = <<>>]>>
                  \o node.children

\* the call for the second child of a node that is itself a child is active
C25_Witness ==
  /\ entry = "generateArticle"
  /\ Len(stack) = 3
  /\ Len(stack[2].children) = 1
  /\ InitialCallOf(stack[2].outlineItem.title).sections # <<>>

\* C26: generateArticleSection returns a state whose sections are the
\* sections of the state it was given followed by exactly one entry, the
\* assembled section with all its children; what child calls appended does
\* not stay at the caller's level.
C26_ReturnAppendsOneSection ==
  entry = "generateArticle" =>
    /\ stack = <<>> => state.sections = articleSections
    /\ \A j \in 1..Len(stack) :
         LET f == stack[j]
             r == SectionResult(f)
         IN (f.pc = "children" /\ f.i > Len(f.outlineItem.items)) =>
              /\ r.state.sections
                   = Append(InitialCallOf(f.outlineItem.title).sections,
                            r.articleSection)
              /\ r.articleSection.children = f.children
              /\ Len(f.children) = Len(f.outlineItem.items)

\* a nested call with two children is about to return
C26_Witness ==
  /\ entry = "generateArticle"
  /\ Len(stack) = 2
  /\ Top.pc = "children" /\ Top.i > Len(Top.outlineItem.items)
  /\ Len(Top.children) = 2

\* the last min(k, n) of n entries
Window(sections, k) ==
  LET n == Len(sections)
      m == IF k < n THEN k ELSE n
  IN SubSeq(sections, n - m + 1, n)

\* C27: for every k >= 0 the prompt of a node's initial generative call
\* holds exactly the last min(k, n) of the n entries of the state.sections
\* the call was given, in order; none when k = 0.
C27_PromptHoldsLastK ==
  \A n \in 1..Len(calls) :
    calls[n].kind = "initial" =>
      ValueOf(calls[n].prompt).lastK = Window(calls[n].sections, K(options))

\* the prompt context of the initial call for the node a call is about
NodePrompt(c) ==
  IF entry = "generateArticle" THEN InitialCallOf(c.item).prompt
  ELSE Some(InitialPrompt(eu.argState, eu.argState.currentOutlineItem))

\* C28: every regeneration call ensureUnique issues for a node is built from
\* the prompt context of the node's initial call: the same topic, the same
\* outline item, the same last-k window of state.sections.
C28_RegenerationSameContext ==
  \A n \in 1..Len(calls) :
    calls[n].kind = "regeneration" => calls[n].prompt = NodePrompt(calls[n])

\* C29: ensureUnique called with an embedding capability and empty
\* state.contents performs no similarity check and no regeneration, returns
\* the content unchanged and, when the embed call succeeds, has appended one
\* entry to state.embeddings and one entry to state.contents for it.
C29_EmptyCorpusAppends ==
  (eu.pc = "return" /\ options.embeddingModel /\ eu.argState.contents = <<>>) =>
    /\ eu.dedupeChecks = 0 /\ eu.regenerations = 0
    /\ eu.content = eu.argContent
    /\ embeddings # eu.argEmbeddings =>
         /\ embeddings = Append(eu.argEmbeddings, EmbeddingOf(Join(eu.content)))
         /\ eu.state.contents = <<Join(eu.content)>>

\* contents and the embeddings array are index-aligned in state st
Aligned(st) ==
  /\ Len(st.contents) = Len(embeddings)
  /\ \A n \in 1..Len(embeddings) : embeddings[n] = EmbeddingOf(st.contents[n])

\* C30: in every state reached during generateArticle, state.contents and
\* state.embeddings have the same length and embeddings[i] is the embedding
\* of contents[i].
C30_ContentsEmbeddingsAligned ==
  entry = "generateArticle" =>
    /\ Aligned(state)
    /\ \A j \in 1..Len(stack) : Aligned(stack[j].state)
    /\ eu.pc # "idle" => Aligned(eu.state)


(* ================== further properties of ensureUnique ================== *)
\* the last loop iteration the active ensureUnique call has entered
LastAttempt == eu.attempts[Len(eu.attempts)]

\* C31: ensureUnique returns after at most maxAttempts loop iterations when
\* each capability call returns or fails: even when every candidate is too
\* similar, the candidate of the last attempt is accepted as-is and is not
\* regenerated again.
C31_ReturnsWithinMaxAttempts ==
  /\ [](/\ Len(eu.attempts) <= maxAttempts
        /\ eu.dedupeChecks <= maxAttempts
        /\ \A k \in 1..Len(eu.attempts) :
             eu.attempts[k].attempt >= maxAttempts =>
               /\ eu.attempts[k].accept
               /\ eu.content = eu.attempts[k].content
               /\ eu.regenerations = eu.attempts[k].regenerationsBefore
               /\ eu.pc \in {"embedAccept", "return"})
  /\ <>(eu.pc = "return")

\* every candidate was too similar and the call has returned the candidate
\* of iteration maxAttempts
C31_Witness ==
  /\ entry = "ensureUnique"
  /\ eu.pc = "return"
  /\ Len(eu.attempts) = maxAttempts
  /\ \A k \in 1..maxAttempts :
       /\ ~eu.attempts[k].threw
       /\ TooSimilar(eu.attempts[k].content, eu.argState.contents)
  /\ eu.content = LastAttempt.content
  /\ eu.regenerations = maxAttempts - 1

\* C32 as stated: no similarity check is performed after the last
\* regeneration call that ensureUnique issues; its content is accepted
\* without a further check.
C32_NoCheckAfterLastRegeneration ==
  (eu.pc = "return" /\ eu.regenerations > 0) =>
    \A k \in 1..Len(eu.attempts) :
      eu.attempts[k].regenerationsBefore < eu.regenerations

\* C32, amended: the content of a regeneration call that returned is
\* checked once more in the next loop iteration; after regeneration
\* maxAttempts - 1, the last one there can be, that check is made on
\* iteration maxAttempts and the content is accepted whatever the check
\* finds, without another regeneration.
C32_LastRegenerationAcceptedWhateverCheck ==
  (eu.pc = "return" /\ eu.regenerations > 0 /\ ~eu.failed) =>
    /\ Len(eu.attempts) = eu.regenerations + 1
    /\ LastAttempt.regenerationsBefore = eu.regenerations
    /\ LastAttempt.accept
    /\ LastAttempt.content = eu.content
    /\ eu.regenerations <= maxAttempts - 1
    /\ (eu.regenerations = maxAttempts - 1) => LastAttempt.attempt = maxAttempts

\* the content of regeneration maxAttempts - 1 was found too similar by the
\* check of iteration maxAttempts and has been returned
C32_Witness ==
  /\ eu.pc = "return"
  /\ ~eu.failed
  /\ eu.regenerations = maxAttempts - 1
  /\ LastAttempt.attempt = maxAttempts
  /\ ~LastAttempt.threw
  /\ LastAttempt.content # eu.argContent
  /\ TooSimilar(LastAttempt.content, eu.argState.contents)
  /\ eu.content = LastAttempt.content

\* C33: if a regeneration call fails, ensureUnique does not throw: it stops
\* retrying, issues no further generative call and returns the most recent
\* candidate content as-is.
C33_RegenerationFailureReturns ==
  eu.failed =>
    /\ eu.pc = "return"
    /\ status = "running" /\ error = Undefined
    /\ eu.content = LastAttempt.content
    /\ ~LastAttempt.accept
    /\ eu.regenerations = LastAttempt.regenerationsBefore + 1
    /\ eu.dedupeChecks = Len(eu.attempts)
    /\ RegenerationsOf(eu.state.currentOutlineItem.title) = eu.regenerations

\* the second regeneration call failed, after the first had replaced the
\* content: the call has returned the content of the first regeneration
C33_Witness ==
  /\ eu.failed
  /\ eu.pc = "return"
  /\ eu.regenerations = 2
  /\ eu.content # eu.argContent
  /\ eu.content = LastAttempt.content

\* C39: when a regeneration call fails inside ensureUnique, the returned
\* state is the state as it was before the call: no embedding and no content
\* entry is appended for the returned content, so the node is absent from
\* the corpus later nodes are compared with.
C39_FailedRegenerationLeavesState ==
  eu.failed =>
    /\ eu.state = eu.argState
    /\ embeddings = eu.argEmbeddings
    /\ Len(eu.state.contents) = Len(eu.argState.contents)
    /\ Len(embeddings) = Len(eu.state.contents)

\* the first regeneration call failed for a candidate that equals a corpus
\* entry; the corpus of two entries is as it was
C39_Witness ==
  /\ eu.failed
  /\ eu.pc = "return"
  /\ eu.regenerations = 1
  /\ Len(eu.argState.contents) = 2
  /\ eu.content = eu.argContent
  /\ embeddings = [i \in 1..2 |-> EmbeddingOf(eu.argState.contents[i])]

(* ============= properties of the postprocessing pipeline ================ *)
\* the nodes whose postprocessing is over
Postprocessed == {postprocessed[k].item : k \in 1..Len(postprocessed)}

\* C34: for every node the postprocessing stages run in the order
\* ensureUnique, ensureBudget: the budget step starts only when the dedup
\* step has returned, with exactly the state and content the dedup step
\* returned, and both stages are over before any child of the node is
\* generated.
C34_UniqueThenBudget ==
  /\ [](entry = "generateArticle" =>
          /\ eu.pc # "idle" =>
               (eb.pc = "idle" /\ stack # <<>> /\ Top.pc = "ensureUnique")
          /\ eb.pc # "idle" =>
               (eu.pc = "idle" /\ stack # <<>> /\ Top.pc = "ensureBudget")
          /\ \A d \in 1..Len(stack) :
               \/ stack[d].pc \in {"generateObject", "ensureUnique", "ensureBudget"}
                  /\ d = Len(stack)
                  /\ stack[d].outlineItem.title \notin Postprocessed
                  /\ stack[d].children = <<>>
               \/ stack[d].pc = "children"
                  /\ stack[d].outlineItem.title \in Postprocessed)
  /\ [][entry = "generateArticle" =>
          /\ (eb.pc = "idle" /\ eb'.pc # "idle") =>
               /\ eu.pc = "return" /\ eu'.pc = "idle"
               /\ eb'.pc = "start"
               /\ eb'.state = eu.state /\ eb'.content = eu.content
          /\ (eu.pc = "return" /\ eu'.pc # "return") =>
               /\ eb'.pc = "start"
               /\ eb'.state = eu.state /\ eb'.content = eu.content
          /\ (eu.pc = "idle" /\ eu'.pc # "idle") =>
               (Top.pc = "generateObject" /\ eb.pc = "idle")
          /\ (Len(stack') > Len(stack) /\ stack # <<>>) =>
               /\ eu.pc = "idle" /\ eb.pc = "idle"
               /\ Top.outlineItem.title \in Postprocessed]_vars

\* a child is being generated: its parent's section went through both
\* stages and ensureUnique is at work on the child
C34_Witness ==
  /\ entry = "generateArticle"
  /\ Len(stack) = 2
  /\ stack[1].pc = "children"
  /\ stack[1].outlineItem.title \in Postprocessed
  /\ stack[2].pc = "ensureUnique"
  /\ eu.pc = "embedFirst"
  /\ eb.pc = "idle"

(* ================== further properties of AsyncQueue ==================== *)
\* C35: at most one drain loop of the queue is active at any time: an
\* enqueue made while a loop is active only appends its task, an enqueue
\* made while the queue is idle starts a loop, the processing flag is true
\* exactly while a loop is active, and a task executes only inside the one
\* active loop.
C35_SingleFlight ==
  /\ [](/\ Cardinality(loops) <= 1
        /\ isProcessing <=> (loops # {})
        /\ \A t \in 1..Len(tasks) : tasks[t].state = "running" => loops = {t})
  /\ [][Len(tasks') > Len(tasks) =>
          IF loops # {}
            THEN /\ loops' = loops
                 /\ queue' = Append(queue, Len(tasks'))
                 /\ tasks'[Len(tasks')].state = "queued"
                 /\ \A t \in 1..Len(tasks) : tasks'[t] = tasks[t]
          ELSE /\ Cardinality(loops') = 1
               /\ isProcessing']_vars

\* an enqueue arrived while a loop was running a task and is waiting, and an
\* earlier loop has ended: one loop is active
C35_Witness ==
  /\ Cardinality(loops) = 1
  /\ isProcessing
  /\ \E t \in 1..Len(tasks) :
       /\ tasks[t].state = "queued" /\ tasks[t].arrival = "running"
       /\ \E u \in 1..Len(tasks) : u < t /\ tasks[u].state = "running"
  /\ \E t \in 1..Len(tasks) : tasks[t].state = "failed"

\* C37: after a queued task fails the processing flag is reset to false, so
\* the next enqueue call starts a new drain loop; that loop first runs the
\* tasks still queued from before the failure, in their original order, and
\* only then the newly enqueued task.
C37_RestartAfterFailure ==
  /\ [](\A t \in 1..Len(tasks) :
          tasks[t].state # "queued" =>
            \A u \in 1..(t - 1) : tasks[u].state # "queued")
  /\ [][(\E t \in loops : tasks[t].state = "failed") /\ loops' # loops =>
          (~isProcessing' /\ loops' = {} /\ queue' = queue)]_vars
  /\ [][(Len(tasks') > Len(tasks) /\ ~isProcessing) =>
          /\ isProcessing'
          /\ loops' = {Head(Append(queue, Len(tasks')))}
          /\ tasks'[Head(Append(queue, Len(tasks')))].state = "running"
          /\ queue' = Tail(Append(queue, Len(tasks')))]_vars

\* task 1 failed with tasks 2 and 3 waiting; the enqueue of task 4 started a
\* loop that ran 2 and 3 and is now running 4
C37_Witness ==
  /\ Len(tasks) = 4
  /\ tasks[1].state = "failed"
  /\ tasks[2].arrival = "running" /\ tasks[3].arrival = "running"
  /\ tasks[4].arrival = "idle"
  /\ tasks[2].state = "succeeded" /\ tasks[3].state = "succeeded"
  /\ tasks[4].state = "running"
  /\ loops = {4}

(* ====================== properties of shouldDedupe ====================== *)
\* the similarity of texts c and e is at least t / 100: their cosine is not
\* negative and its square is at least (t / 100)^2
SimilarityAtLeast(c, e, t) ==
  LET a == EmbeddingOf(c)
      b == EmbeddingOf(e)
  IN /\ Dot(a, b) >= 0
     /\ (100 * Dot(a, b)) * (100 * Dot(a, b)) >= (t * t) * (Dot(a, a) * Dot(b, b))

\* the indices of the entries of corpus whose similarity to candidate is at
\* least t / 100
SimilarEntries(candidate, corpus, t) ==
  {i \in 1..Len(corpus) : SimilarityAtLeast(candidate, corpus[i], t)}

\* the entries of corpus at the indices in S, in corpus order
EntriesAt(corpus, S) ==
  LET f == SortedSeq(S) IN [j \in 1..Len(f) |-> corpus[f[j]]]

\* C36: shouldDedupe returns should = true if and only if at least one
\* existing entry has similarity >= threshold with the candidate, equality
\* counting as too similar, and its similar list holds exactly those
\* entries, in corpus order.
C36_ShouldIffSomeSimilar ==
  \A k \in Checked :
    LET a == eu.attempts[k]
        S == SimilarEntries(Join(a.content), eu.argState.contents, Threshold(options))
    IN /\ a.should <=> (S # {})
       /\ a.similar = EntriesAt(eu.argState.contents, S)

\* a check against a corpus of two entries: the first below the threshold,
\* the second at similarity 0.6, equal to the threshold
C36_Witness ==
  /\ Checked # {}
  /\ options.dedupeThreshold = Some(60)
  /\ Len(eu.argState.contents) = 2
  /\ LET a == eu.attempts[1]
         c == EmbeddingOf(Join(a.content))
         e == EmbeddingOf(eu.argState.contents[2])
     IN /\ ~a.threw
        /\ a.should
        /\ a.similar = <<eu.argState.contents[2]>>
        /\ 100 * Dot(c, e) * Dot(c, e) = 36 * Dot(c, c) * Dot(e, e)

(* ================= properties of the embeddings array =================== *)
\* the contents of a forest of article sections in pre-order
RECURSIVE ContentsPreOrder(_)
ContentsPreOrder(sections) ==
  IF sections = <<>> THEN <<>>
  ELSE <<Head(sections).content>> \o ContentsPreOrder(Head(sections).children)
       \o ContentsPreOrder(Tail(sections))

\* C38: the copies of the GenerationState made during a generateArticle run
\* share the embeddings array created at the start of the run; the dedup
\* step of a node appends at most one embedding to it, for the content it
\* returns and never for a rejected candidate, so that, with an embedding
\* capability whose every call succeeds, the array holds at the end of the
\* run exactly one embedding per generated node, in pre-order.
C38_OneEmbeddingPerNode ==
  /\ [](/\ eu.pc # "idle" =>
             \/ embeddings = eu.argEmbeddings
             \/ /\ eu.pc = "return"
                /\ embeddings =
                     Append(eu.argEmbeddings, EmbeddingOf(Join(eu.content)))
        /\ entry = "generateArticle" => Len(embeddings) <= Len(InitialCalls)
        /\ (Returned /\ options.embeddingModel /\ embedFailures = 0) =>
             LET contents == ContentsPreOrder(ValueOf(article).sections)
             IN /\ Len(contents) = Len(OutlinePreOrder(outline.items))
                /\ embeddings =
                     [n \in 1..Len(contents) |-> EmbeddingOf(Join(contents[n]))])
  /\ [][embeddings' # embeddings =>
          /\ eu.pc \in {"embedFirst", "embedAccept"}
          /\ eu'.pc = "return" /\ eu'.content = eu.content
          /\ Len(embeddings') = Len(embeddings) + 1
          /\ SubSeq(embeddings', 1, Len(embeddings)) = embeddings]_vars

\* a run over three nodes, one nested, whose contents are not all the same,
\* has returned with three embeddings
C38_Witness ==
  /\ Returned /\ options.embeddingModel /\ embedFailures = 0
  /\ Len(outline.items) = 2
  /\ Len(OutlinePreOrder(outline.items)) = 3
  /\ Len(embeddings) = 3
  /\ \E m, n \in 1..3 : embeddings[m] # embeddings[n]

====
